---- MODULE Spec2Model ----
(***************************************************************************)
(* Model of the C++ function scanner of DocGen (src/src/cpp_analyzer.py):  *)
(* CppAnalyzer.extract_functions_from_text, find_cpp_files and             *)
(* analyze_repository.                                                     *)
(*                                                                         *)
(* Text is modelled at the level of lexemes.  A string is a sequence of    *)
(* tokens; a token is a maximal run of word characters ("void", "A", "x"), *)
(* one blank " ", or one punctuation lexeme ("::", "(", ")", "{", "}",     *)
(* ",", ";", "=", "~", ":").  The regular expressions of the source only   *)
(* ever begin or end a group at such a boundary, so matching on tokens     *)
(* computes the groups that re.match computes on characters.  The input    *)
(* alphabet has no '<' and no '>', so the template-argument alternatives   *)
(* of function_pattern never apply and are not modelled.                   *)
(*                                                                         *)
(* Python's None is the empty option <<>>, a present value s is <<s>>.     *)
(* Line indices i, j are 0-based as in the source; lines[i] of the source  *)
(* is lines[i + 1] here.                                                   *)
(***************************************************************************)
EXTENDS Integers, Sequences, FiniteSets, TLC

VARIABLES
    lines,          \* extract_functions_from_text: content.split('\n')
    i,              \* extract_functions_from_text: outer loop index
    functions,      \* extract_functions_from_text: the list being built
    pc,             \* "idle", "scan" (line 58), "while" (line 100), "for"
                    \* (line 101), "done" (returned)
    j,              \* brace scan: index of the line being scanned
    col,            \* brace scan: place of char in lines[j] (the for loop)
    brace_count,    \* brace scan: depth
    line_end,       \* brace scan: line number of the closing brace
    params_str,     \* parameter parsing: the raw text between the parentheses
    parameters,     \* parameter parsing: the list built from params_str
    ppc,            \* "idle", "parse", "parsed"
    disk,           \* the file system under repo_path: [exists, files]
    cpp_files,      \* analyze_repository: the list find_cpp_files returned
    k,              \* analyze_repository: index of the file being analysed
    repo_functions, \* analyze_repository: the list being built
    rpc             \* "idle", "start", "loop", "done"

vars == <<lines, i, functions, pc, j, col, brace_count, line_end,
          params_str, parameters, ppc, disk, cpp_files, k, repo_functions, rpc>>

(***************************************************************************)
(* Bounds of the model.                                                    *)
(***************************************************************************)
MaxLines == 3
MaxParamLen == 4
MaxFiles == 3

(***************************************************************************)
(* Strings as token sequences.                                             *)
(***************************************************************************)
None == <<>>
Some(s) == <<s>>

WS == " "

\* s[a..b] (1-based, inclusive); empty when a > b
Slice(s, a, b) == IF a > b THEN <<>> ELSE SubSeq(s, a, b)

\* str.strip(): drop the blanks at both ends
RECURSIVE LStrip(_)
LStrip(s) == IF s # <<>> /\ Head(s) = WS THEN LStrip(Tail(s)) ELSE s

RECURSIVE RStrip(_)
RStrip(s) ==
    IF s # <<>> /\ s[Len(s)] = WS THEN RStrip(SubSeq(s, 1, Len(s) - 1)) ELSE s

Strip(s) == RStrip(LStrip(s))

\* str.split(sep) for a one-token separator: always at least one segment
RECURSIVE SplitFrom(_, _, _, _)
SplitFrom(s, sep, p, cur) ==
    IF p > Len(s) THEN <<cur>>
    ELSE IF s[p] = sep THEN <<cur>> \o SplitFrom(s, sep, p + 1, <<>>)
    ELSE SplitFrom(s, sep, p + 1, Append(cur, s[p]))

Split(s, sep) == SplitFrom(s, sep, 1, <<>>)

\* first position >= p that holds no blank (Len(s) + 1 if there is none)
RECURSIVE SkipWs(_, _)
SkipWs(s, p) == IF p <= Len(s) /\ s[p] = WS THEN SkipWs(s, p + 1) ELSE p

At(s, p) == IF p >= 1 /\ p <= Len(s) THEN s[p] ELSE "<eol>"

(***************************************************************************)
(* Token classes.                                                          *)
(***************************************************************************)
cpp_keywords ==
    {"if", "else", "for", "while", "do", "switch", "case", "default",
     "break", "continue", "return", "goto", "try", "catch", "throw",
     "new", "delete", "sizeof", "typedef", "struct", "class", "enum",
     "union", "namespace", "using", "public", "private", "protected",
     "virtual", "static", "const", "volatile", "inline", "explicit",
     "friend", "template", "typename", "auto", "register", "extern"}

\* the qualifier alternatives of function_pattern (template<...> left out:
\* the alphabet has no '<')
Qualifiers == {"static", "virtual", "inline", "explicit", "friend"}

Punct == {WS, "::", ":", "(", ")", "{", "}", ",", ";", "=", "~", "*", "<eol>"}

\* word tokens that do not start with a letter or '_'
Numerals == {"0", "5"}

\* a run of word characters
IsWord(t) == t \notin Punct

\* an identifier
IsIdent(t) == IsWord(t) /\ t \notin Numerals

\* the word tokens of the alphabet that have 'operator' as a substring
OperatorWords == {"operator", "operators"}

(***************************************************************************)
(* function_pattern (cpp_analyzer.py 52-55) on the stripped line s, in     *)
(* order: any number of qualifiers, each followed by blanks; the return    *)
(* type, a shortest run without ';' and '{'; at least one blank; the       *)
(* qualified name, identifiers joined by '::' with at least one '::'; the  *)
(* parameter list in parentheses, without ')'; optionally const, noexcept  *)
(* and a ':' clause without ';' and '{'; the opening brace.                *)
(***************************************************************************)
\* no ';' and no '{' in s[a..b]
NoBrk(s, a, b) == \A p \in a..b : s[p] \notin {";", "{"}

MinOf(S) == CHOOSE x \in S : \A y \in S : x <= y

MaxOf(S) == CHOOSE x \in S : \A y \in S : x >= y

\* the last identifier of the longest chain of '::'-joined identifiers from p
RECURSIVE ChainEnd(_, _)
RECURSIVE ChainColon(_, _, _)
RECURSIVE ChainIdent(_, _, _)
ChainEnd(s, p) == ChainColon(s, p, SkipWs(s, p + 1))

ChainColon(s, p, c) ==
    IF At(s, c) = "::" THEN ChainIdent(s, p, SkipWs(s, c + 1)) ELSE p

ChainIdent(s, p, d) == IF IsIdent(At(s, d)) THEN ChainEnd(s, d) ELSE p

\* the first ')' after position o, 0 if there is none
CloseSet(s, o) == {c \in (o + 1)..Len(s) : s[c] = ")"}

FirstIn(cs) == IF cs = {} THEN 0 ELSE MinOf(cs)

FirstClose(s, o) == FirstIn(CloseSet(s, o))

\* an optional word at p
AfterWord(s, p, word) == IF At(s, p) = word THEN p + 1 ELSE p

\* behind the optional const and noexcept that follow the ')' at c
TailStart(s, c) ==
    SkipWs(s, AfterWord(s, SkipWs(s, AfterWord(s, SkipWs(s, c + 1), "const")),
                        "noexcept"))

\* at p: the opening brace, or a ':' clause without ';' up to an opening brace
BodyOpens(s, p) ==
    \/ At(s, p) = "{"
    \/ /\ At(s, p) \in {":", "::"}
       /\ \E b \in (p + 1)..Len(s) : s[b] = "{" /\ NoBrk(s, p + 1, b - 1)

\* optional const, noexcept and ':' clause, then '{', after the ')' at c
TailOk(s, c) == c > 0 /\ BodyOpens(s, TailStart(s, c))

\* the parameter list opens at o, closes, and the opening brace follows
ParenOk(s, o) == At(s, o) = "(" /\ TailOk(s, FirstClose(s, o))

\* the chain from a to e has a '::' and the parameter list follows it
NameTailOk(s, a, e) == e > a /\ ParenOk(s, SkipWs(s, e + 1))

\* the qualified name, the parameter list and the opening brace match from a
NameOk(s, a) == IsIdent(At(s, a)) /\ NameTailOk(s, a, ChainEnd(s, a))

\* where the text after q qualifiers (each followed by all its blanks) starts;
\* 0 if s does not start with q qualifiers
RECURSIVE AfterQualsFrom(_, _, _)
AfterQualsFrom(s, w, q) ==
    IF q = 0 THEN w
    ELSE IF At(s, w) \in Qualifiers /\ At(s, w + 1) = WS
    THEN AfterQualsFrom(s, SkipWs(s, w + 1), q - 1)
    ELSE 0

AfterQuals(s, q) == AfterQualsFrom(s, 1, q)

\* the starts of the qualified name that match behind the qualifiers ending
\* before w: behind a return type and a blank, or directly at w when the last
\* qualifier is followed by two blanks (one for the qualifier, one after the
\* empty return type)
NameStartsFrom(s, q, w) ==
    IF w = 0 THEN {}
    ELSE {a \in w..Len(s) :
            /\ IF a > w THEN s[a - 1] = WS /\ NoBrk(s, w, a - 1)
               ELSE q > 0 /\ At(s, w - 2) = WS
            /\ NameOk(s, a)}

NameStarts(s, q) == NameStartsFrom(s, q, AfterQuals(s, q))

\* the groups of the match whose return type starts at w, whose name is
\* s[a..e] and whose parameter list opens at o
Groups(s, w, a, e, o) ==
    [ok |-> TRUE,
     return_type |-> RStrip(Slice(s, w, a - 1)),
     full_qualified_name |-> Slice(s, a, e),
     params_str |-> Slice(s, o + 1, FirstClose(s, o) - 1)]

GroupsTo(s, w, a, e) == Groups(s, w, a, e, SkipWs(s, e + 1))

GroupsAt(s, w, a) == GroupsTo(s, w, a, ChainEnd(s, a))

\* the shortest return type that is followed by a blank, else the empty one
FirstStart(w, later) == IF later # {} THEN MinOf(later) ELSE w

MatchFrom(s, w, starts) ==
    GroupsAt(s, w, FirstStart(w, {a \in starts : a > w}))

MatchAfter(s, q) == MatchFrom(s, AfterQuals(s, q), NameStarts(s, q))

MatchWith(s, qs) == IF qs = {} THEN [ok |-> FALSE] ELSE MatchAfter(s, MaxOf(qs))

\* re.match(function_pattern, s): the first match in backtracking order, i.e.
\* most qualifiers first, then the shortest return type that is followed by a
\* blank, then the empty return type
Match(s) == MatchWith(s, {q \in 0..Len(s) : NameStarts(s, q) # {}})

(***************************************************************************)
(* Parameter parsing (cpp_analyzer.py 83-93).                              *)
(***************************************************************************)
\* the rest after the name is empty or a default clause starting with '='
DefaultOk(p, n) == n = Len(p) \/ At(p, SkipWs(p, n + 1)) = "="

\* positions of the name: a word behind a non-empty type and a blank, with
\* nothing or a default clause after it (the pattern of line 88)
ParamNames(p) ==
    {n \in 3..Len(p) : p[n - 1] = WS /\ IsWord(p[n]) /\ DefaultOk(p, n)}

\* lines 89-93: the lazy type group makes the first such name the match
ParamAt(p, ns) ==
    IF ns # {}
    THEN [name |-> <<p[MinOf(ns)]>>, type |-> Strip(Slice(p, 1, MinOf(ns) - 1))]
    ELSE [name |-> <<"param">>, type |-> Strip(p)]

\* one stripped segment to its {name, type} pair
ParseParam(p) == ParamAt(p, ParamNames(p))

\* a slip: the test for 'void' left out of line 87
ParsePartKeepVoid(param) ==
    IF param # <<>> THEN <<ParseParam(param)>> ELSE <<>>

\* lines 86-93 for one element of param_parts
ParsePart(param) ==
    IF param # <<>> /\ param # <<"void">> THEN <<ParseParam(param)>> ELSE <<>>

\* the loop over param_parts
RECURSIVE ParseParts(_)
ParseParts(parts) ==
    IF parts = <<>> THEN <<>>
    ELSE ParsePart(Strip(Head(parts))) \o ParseParts(Tail(parts))

ParseParameters(ps) ==
    IF Strip(ps) # <<>> THEN ParseParts(Split(ps, ",")) ELSE <<>>

(***************************************************************************)
(* The brace scan (cpp_analyzer.py 95-109).                                *)
(***************************************************************************)
\* for char in lines[j]: count braces from position p, stop at depth 0
RECURSIVE ScanChars(_, _, _)
ScanChars(line, p, count) ==
    IF p > Len(line) THEN [brace_count |-> count, closed |-> FALSE]
    ELSE IF line[p] = "{" THEN ScanChars(line, p + 1, count + 1)
    ELSE IF line[p] = "}"
         THEN IF count - 1 = 0
              THEN [brace_count |-> 0, closed |-> TRUE]
              ELSE ScanChars(line, p + 1, count - 1)
    ELSE ScanChars(line, p + 1, count)

\* one pass of the while loop at j, r being what its for loop computed
RECURSIVE BraceScan(_, _, _, _)
ScanLine(ls, jx, r, end) ==
    BraceScan(ls, jx + 1, r.brace_count, IF r.closed THEN jx + 1 ELSE end)

\* while j < len(lines) and brace_count > 0
BraceScan(ls, jx, count, end) ==
    IF jx < Len(ls) /\ count > 0
    THEN ScanLine(ls, jx, ScanChars(ls[jx + 1], 1, count), end)
    ELSE [line_end |-> end, brace_count |-> count, j |-> jx]

(***************************************************************************)
(* Body text and tagging (cpp_analyzer.py 27-28, 111-120).  Here the text  *)
(* is a string of characters: the tokens written out, lines joined by a    *)
(* newline.                                                                *)
(***************************************************************************)
ALGORITHM_KEYWORDS ==
    <<"sort", "search", "hash", "tree", "graph", "dynamic programming", "dp">>

MATH_KEYWORDS ==
    <<"sqrt", "pow", "matrix", "vector", "eigen", "sin", "cos", "tan">>

\* the characters of a token sequence
RECURSIVE Text(_)
Text(s) == IF s = <<>> THEN "" ELSE Head(s) \o Text(Tail(s))

\* '\n'.join(lines[a:b]) for the 0-based slice a:b, a < b
RECURSIVE JoinNl(_, _, _)
JoinNl(ls, a, b) ==
    IF a + 1 >= b THEN Text(ls[a + 1])
    ELSE Text(ls[a + 1]) \o "\n" \o JoinNl(ls, a + 1, b)

\* lines 111-117: body_str
BodyStr(ls, line_start, end) ==
    IF end > line_start THEN JoinNl(ls, line_start, end) ELSE ""

\* line 114: the cap of the preview, in characters
PreviewCap == 500

\* line 114: body_preview
BodyPreview(body_str) ==
    IF Len(body_str) > PreviewCap
    THEN SubSeq(body_str, 1, PreviewCap) \o "..."
    ELSE body_str

UpperCase == "ABCDEFGHIJKLMNOPQRSTUVWXYZ"

LowerCase == "abcdefghijklmnopqrstuvwxyz"

CharAt(t, n) == SubSeq(t, n, n)

\* the place of c among the upper-case letters, 0 if it is none
UpperIndex(c) ==
    IF \E n \in 1..Len(UpperCase) : CharAt(UpperCase, n) = c
    THEN CHOOSE n \in 1..Len(UpperCase) : CharAt(UpperCase, n) = c
    ELSE 0

LowerChar(c, n) == IF n > 0 THEN CharAt(LowerCase, n) ELSE c

\* str.lower()
RECURSIVE Lower(_)
Lower(t) ==
    IF Len(t) = 0 THEN ""
    ELSE LowerChar(CharAt(t, 1), UpperIndex(CharAt(t, 1)))
         \o Lower(SubSeq(t, 2, Len(t)))

\* keyword in text
InStr(keyword, text) ==
    \E a \in 1..(Len(text) - Len(keyword) + 1) :
        SubSeq(text, a, a + Len(keyword) - 1) = keyword

\* [keyword for keyword in keywords if keyword in low]
RECURSIVE KeywordsIn(_, _)
KeywordsIn(keywords, low) ==
    IF keywords = <<>> THEN <<>>
    ELSE (IF InStr(Head(keywords), low) THEN <<Head(keywords)>> ELSE <<>>)
         \o KeywordsIn(Tail(keywords), low)

\* any(keyword in low for keyword in keywords)
AnyIn(keywords, low) ==
    \E n \in 1..Len(keywords) : InStr(keywords[n], low)

(***************************************************************************)
(* One iteration of the outer loop (cpp_analyzer.py 58-140) at index i.    *)
(***************************************************************************)
\* parts[-1].strip()
FuncName(parts) == Strip(parts[Len(parts)])

\* 'operator' in func_name
ContainsOperator(func_name) ==
    \E p \in 1..Len(func_name) : func_name[p] \in OperatorWords

\* a slip: the keyword test left out of the filter
RejectedNoKeywords(func_name) ==
    At(func_name, 1) = "~" \/ ContainsOperator(func_name)

\* the filter of lines 68-69
Rejected(func_name) ==
    \/ At(func_name, 1) = "~"
    \/ ContainsOperator(func_name)
    \/ (Len(func_name) = 1 /\ func_name[1] \in cpp_keywords)

\* a slip: the two segments nearest to the name taken instead of the first two
ResolveNearest(parts) ==
    IF Len(parts) >= 3
    THEN [ok |-> TRUE, namespace |-> Some(Strip(parts[Len(parts) - 2])),
          class_name |-> Some(Strip(parts[Len(parts) - 1]))]
    ELSE IF Len(parts) = 2
    THEN [ok |-> TRUE, namespace |-> None, class_name |-> Some(Strip(parts[1]))]
    ELSE [ok |-> FALSE, namespace |-> None, class_name |-> None]

\* lines 73-81: namespace and class_name from the '::' segments
Resolve(parts) ==
    IF Len(parts) >= 3
    THEN [ok |-> TRUE, namespace |-> Some(Strip(parts[1])),
          class_name |-> Some(Strip(parts[2]))]
    ELSE IF Len(parts) = 2
    THEN [ok |-> TRUE, namespace |-> None, class_name |-> Some(Strip(parts[1]))]
    ELSE [ok |-> FALSE, namespace |-> None, class_name |-> None]

\* a slip: line_start taken as the line behind the signature line
LineStartAfter(ix) == ix + 2

\* line 96: line_start = i + 1
LineStart(ix) == ix + 1

\* lines 95-109: line_end, from brace_count = 1, line_end = i + 1, j = i + 1
LineEnd(ls, ix) == BraceScan(ls, ix + 1, 1, ix + 1).line_end

\* a slip: full_qualified_name filled with the simple name
MakeInfoSimpleName(ix, m, parts, res, end, file_path, body_str, low) ==
    [name |-> FuncName(parts),
     file_path |-> file_path,
     line_start |-> LineStart(ix),
     line_end |-> end,
     parameters |-> ParseParameters(m.params_str),
     return_type |-> Strip(m.return_type),
     docstring |-> None,
     body_preview |-> BodyPreview(body_str),
     algorithm_keywords |-> KeywordsIn(ALGORITHM_KEYWORDS, low),
     includes_math |-> AnyIn(MATH_KEYWORDS, low),
     function_description |-> None,
     namespace |-> res.namespace,
     class_name |-> res.class_name,
     full_qualified_name |-> FuncName(parts)]

\* lines 119-137: the FunctionInfo of the signature at index ix, low being
\* body_str.lower(); function_description keeps its default
MakeInfo(ix, m, parts, res, end, file_path, body_str, low) ==
    [name |-> FuncName(parts),
     file_path |-> file_path,
     line_start |-> LineStart(ix),
     line_end |-> end,
     parameters |-> ParseParameters(m.params_str),
     return_type |-> Strip(m.return_type),
     docstring |-> None,
     body_preview |-> BodyPreview(body_str),
     algorithm_keywords |-> KeywordsIn(ALGORITHM_KEYWORDS, low),
     includes_math |-> AnyIn(MATH_KEYWORDS, low),
     function_description |-> None,
     namespace |-> res.namespace,
     class_name |-> res.class_name,
     full_qualified_name |-> Strip(m.full_qualified_name)]

\* lines 111-137 once the brace scan has given line_end
InfoOf(ix, m, parts, res, end, file_path, body_str) ==
    MakeInfo(ix, m, parts, res, end, file_path, body_str, Lower(body_str))

InfoAt(ls, ix, m, parts, res, end, file_path) ==
    InfoOf(ix, m, parts, res, end, file_path,
           BodyStr(ls, LineStart(ix), end))

\* a slip: behind a closed body the scan resumes on the closing line itself
EmittedAtClose(info) ==
    [kind |-> "emit",
     next |-> IF info.line_end > info.line_start
              THEN info.line_end - 1 ELSE info.line_end,
     info |-> info]

\* line 138 and line 139: the record is appended and i becomes line_end
Emitted(info) == [kind |-> "emit", next |-> info.line_end, info |-> info]

\* a slip: i set to j, where the brace scan stopped, instead of line_end
IterNameResumeAtJ(ls, ix, m, parts, res, file_path) ==
    IF Rejected(FuncName(parts)) \/ ~res.ok
    THEN [kind |-> "reject", next |-> ix + 1]
    ELSE [kind |-> "emit",
          next |-> BraceScan(ls, ix + 1, 1, ix + 1).j,
          info |-> InfoAt(ls, ix, m, parts, res, LineEnd(ls, ix), file_path)]

\* lines 65-139 for a matched line
IterName(ls, ix, m, parts, res, file_path) ==
    IF Rejected(FuncName(parts)) \/ ~res.ok
    THEN [kind |-> "reject", next |-> ix + 1]
    ELSE Emitted(InfoAt(ls, ix, m, parts, res, LineEnd(ls, ix), file_path))

IterParts(ls, ix, m, parts, file_path) ==
    IterName(ls, ix, m, parts, Resolve(parts), file_path)

\* lines 62-140 for the result m of re.match
IterOn(ls, ix, m, file_path) ==
    IF ~m.ok THEN [kind |-> "nomatch", next |-> ix + 1]
    ELSE IterParts(ls, ix, m, Split(m.full_qualified_name, "::"), file_path)

\* what the iteration at index ix does: "nomatch" (line 140), "reject"
\* (lines 68-71 and 79-81) or "emit" (line 138); next is the new value of i
Iter(ls, ix, file_path) == IterOn(ls, ix, Match(Strip(ls[ix + 1])), file_path)

\* the list after the iteration it
Extended(acc, it) == IF it.kind = "emit" THEN Append(acc, it.info) ELSE acc

\* extract_functions_from_text as a whole, from index ix with the list acc
RECURSIVE ExtractFrom(_, _, _, _)
ExtractStep(ls, acc, it, file_path) ==
    ExtractFrom(ls, it.next, Extended(acc, it), file_path)

ExtractFrom(ls, ix, acc, file_path) ==
    IF ix < Len(ls) THEN ExtractStep(ls, acc, Iter(ls, ix, file_path), file_path)
    ELSE acc

Extract(ls, file_path) == ExtractFrom(ls, 0, <<>>, file_path)

(***************************************************************************)
(* The inputs: source lines as token sequences.                            *)
(***************************************************************************)
\* void A::f() {
SigF == <<"void", WS, "A", "::", "f", "(", ")", WS, "{">>
\* int N::A::g(int x) {
SigG == <<"int", WS, "N", "::", "A", "::", "g", "(", "int", WS, "x", ")", WS, "{">>
\* void N::A::B::h(void) {
SigH == <<"void", WS, "N", "::", "A", "::", "B", "::", "h", "(", "void", ")", WS, "{">>
\* static  A::s() const {
SigS == <<"static", WS, WS, "A", "::", "s", "(", ")", WS, "const", WS, "{">>
\* void A::f() { }
OneLine == <<"void", WS, "A", "::", "f", "(", ")", WS, "{", WS, "}">>
\* void A::operator() {
SigOp == <<"void", WS, "A", "::", "operator", "(", ")", WS, "{">>
\* void A::delete() {
SigKw == <<"void", WS, "A", "::", "delete", "(", ")", WS, "{">>
\* A::~A() {
SigDtor == <<"A", "::", "~", "A", "(", ")", WS, "{">>
\* void f() {
SigFree == <<"void", WS, "f", "(", ")", WS, "{">>
\* if (x) {
OpenLine == <<"if", WS, "(", "x", ")", WS, "{">>
\* }
CloseLine == <<"}">>
\* } namespace M {
CloseOpen == <<"}", WS, "namespace", WS, "M", WS, "{">>
\* } void A::f() {
CloseSig == <<"}", WS, "void", WS, "A", "::", "f", "(", ")", WS, "{">>
\*   x;
Stmt == <<WS, WS, "x", ";">>

LineSet ==
    {SigF, SigG, SigH, OneLine, SigOp, SigKw, SigDtor, SigFree,
     OpenLine, CloseLine, CloseOpen, CloseSig, Stmt}

\* content.split('\n') has at least one element
Inputs == UNION {[1..n -> LineSet] : n \in 1..MaxLines}

\* void A::f() { quicksort(x);
SigSort ==
    <<"void", WS, "A", "::", "f", "(", ")", WS, "{", WS,
      "quicksort", "(", "x", ")", ";">>
\* void A::f() { return sqrt(x); }
OneMath ==
    <<"void", WS, "A", "::", "f", "(", ")", WS, "{", WS,
      "return", WS, "sqrt", "(", "x", ")", ";", WS, "}">>
\*   QuickSort(x);
BodySort == <<WS, WS, "QuickSort", "(", "x", ")", ";">>
\*   x = sqrt(x);
BodyMath == <<WS, WS, "x", WS, "=", WS, "sqrt", "(", "x", ")", ";">>
\*   dynamic programming;
BodyDp == <<WS, WS, "dynamic", WS, "programming", ";">>

\* lines with vocabulary in them, for the tagging
TagLineSet ==
    {SigF, SigSort, OneMath, BodySort, BodyMath, BodyDp, CloseLine, SigOp}

TagInputs == UNION {[1..n -> TagLineSet] : n \in 1..MaxLines}

\* the file_path argument of a single call
FilePath == [stem |-> "a", ext |-> ".cpp"]

(***************************************************************************)
(* extract_functions_from_text, one outer-loop iteration per step.         *)
(***************************************************************************)
\* the variables of the parameter parser and of the repository run at rest
ParamsIdle == params_str = <<>> /\ parameters = <<>> /\ ppc = "idle"

RepoIdle ==
    /\ disk = [exists |-> TRUE, files |-> <<>>]
    /\ cpp_files = <<>> /\ k = 0 /\ repo_functions = <<>> /\ rpc = "idle"

\* the locals of the brace scan before their first assignment
BraceIdle == j = 0 /\ col = 0 /\ brace_count = 0 /\ line_end = 0

\* lines 39, 50, 57: functions = [], lines = content.split, i = 0
Init ==
    /\ lines \in Inputs
    /\ i = 0
    /\ functions = <<>>
    /\ pc = "scan"
    /\ BraceIdle /\ ParamsIdle /\ RepoIdle

bracevars == <<j, col, brace_count, line_end>>

rest == <<params_str, parameters, ppc, disk, cpp_files, k, repo_functions, rpc>>

others == <<bracevars, rest>>

\* the loop body has run as the iteration it, of the given kind
Advance(it, kind) ==
    /\ it.kind = kind
    /\ i' = it.next
    /\ functions' = Extended(functions, it)

\* line 140: the line is no signature
NoMatch ==
    /\ pc = "scan" /\ i < Len(lines)
    /\ Advance(Iter(lines, i, FilePath), "nomatch")
    /\ UNCHANGED <<lines, pc, others>>

\* lines 68-71: a signature whose name is filtered out
Reject ==
    /\ pc = "scan" /\ i < Len(lines)
    /\ Advance(Iter(lines, i, FilePath), "reject")
    /\ UNCHANGED <<lines, pc, others>>

\* lines 73-139: a signature; its record is appended and i moves to line_end
Emit ==
    /\ pc = "scan" /\ i < Len(lines)
    /\ Advance(Iter(lines, i, FilePath), "emit")
    /\ UNCHANGED <<lines, pc, others>>

\* line 142: return functions
Return ==
    /\ pc = "scan" /\ i >= Len(lines)
    /\ pc' = "done"
    /\ UNCHANGED <<lines, i, functions, others>>

Next == NoMatch \/ Reject \/ Emit \/ Return

Spec == Init /\ [][Next]_vars

\* the same scan, on the lines with vocabulary
InitTags ==
    /\ lines \in TagInputs
    /\ i = 0
    /\ functions = <<>>
    /\ pc = "scan"
    /\ BraceIdle /\ ParamsIdle /\ RepoIdle

SpecTags == InitTags /\ [][Next]_vars

(***************************************************************************)
(* extract_functions_from_text with the brace scan (cpp_analyzer.py        *)
(* 95-109) taken one step at a time: one step per test of the while        *)
(* condition and one per character of the for loop.                        *)
(***************************************************************************)
\* } }
CloseTwo == <<"}", WS, "}">>

StepLineSet == {SigF, OneLine, SigOp, OpenLine, CloseLine, CloseTwo, Stmt}

StepInputs == UNION {[1..n -> StepLineSet] : n \in 1..MaxLines}

InitSteps ==
    /\ lines \in StepInputs
    /\ i = 0
    /\ functions = <<>>
    /\ pc = "scan"
    /\ BraceIdle /\ ParamsIdle /\ RepoIdle

\* lines 63-81 and 111-137 for the signature at index ix, the brace scan
\* having given line_end
InfoParts(ls, ix, m, parts, end, file_path) ==
    InfoAt(ls, ix, m, parts, Resolve(parts), end, file_path)

InfoMatch(ls, ix, m, end, file_path) ==
    InfoParts(ls, ix, m, Split(m.full_qualified_name, "::"), end, file_path)

InfoScanned(ls, ix, end, file_path) ==
    InfoMatch(ls, ix, Match(Strip(ls[ix + 1])), end, file_path)

\* lines 61-98: a signature that passes the filter; the scan is set up
OpenBody ==
    /\ pc = "scan" /\ i < Len(lines)
    /\ Iter(lines, i, FilePath).kind = "emit"
    /\ brace_count' = 1
    /\ line_end' = i + 1
    /\ j' = i + 1
    /\ col' = 0
    /\ pc' = "while"
    /\ UNCHANGED <<lines, i, functions, rest>>

\* line 100 holds: the for loop over lines[j] begins
WhileEnter ==
    /\ pc = "while" /\ j < Len(lines) /\ brace_count > 0
    /\ col' = 1
    /\ pc' = "for"
    /\ UNCHANGED <<lines, i, functions, j, brace_count, line_end, rest>>

\* lines 102-103: char is an opening brace
ForOpen ==
    /\ pc = "for" /\ col <= Len(lines[j + 1])
    /\ lines[j + 1][col] = "{"
    /\ brace_count' = brace_count + 1
    /\ col' = col + 1
    /\ UNCHANGED <<lines, i, functions, pc, j, line_end, rest>>

\* a slip: the break of line 108 left out
ForCloseNoBreak ==
    /\ pc = "for" /\ col <= Len(lines[j + 1])
    /\ lines[j + 1][col] = "}"
    /\ brace_count' = brace_count - 1
    /\ line_end' = IF brace_count' = 0 THEN j + 1 ELSE line_end
    /\ col' = col + 1
    /\ UNCHANGED <<lines, i, functions, pc, j, rest>>

\* lines 104-109: char is a closing brace; at depth 0 line_end is set, the
\* for loop is left and j moves on
ForClose ==
    /\ pc = "for" /\ col <= Len(lines[j + 1])
    /\ lines[j + 1][col] = "}"
    /\ brace_count' = brace_count - 1
    /\ IF brace_count' = 0
       THEN /\ line_end' = j + 1
            /\ j' = j + 1
            /\ pc' = "while"
            /\ col' = col
       ELSE /\ col' = col + 1
            /\ UNCHANGED <<pc, j, line_end>>
    /\ UNCHANGED <<lines, i, functions, rest>>

\* lines 101-104: char is no brace
ForOther ==
    /\ pc = "for" /\ col <= Len(lines[j + 1])
    /\ lines[j + 1][col] \notin {"{", "}"}
    /\ col' = col + 1
    /\ UNCHANGED <<lines, i, functions, pc, j, brace_count, line_end, rest>>

\* line 109: the for loop is exhausted; j += 1
ForEnd ==
    /\ pc = "for" /\ col > Len(lines[j + 1])
    /\ j' = j + 1
    /\ pc' = "while"
    /\ UNCHANGED <<lines, i, functions, col, brace_count, line_end, rest>>

\* line 100 fails; lines 111-139: the record is appended and i = line_end
AppendRecord ==
    /\ pc = "while" /\ ~(j < Len(lines) /\ brace_count > 0)
    /\ functions' = Append(functions, InfoScanned(lines, i, line_end, FilePath))
    /\ i' = line_end
    /\ pc' = "scan"
    /\ UNCHANGED <<lines, bracevars, rest>>

NextSteps ==
    \/ NoMatch \/ Reject \/ Return
    \/ OpenBody \/ WhileEnter \/ ForOpen \/ ForClose \/ ForOther \/ ForEnd
    \/ AppendRecord

SpecSteps == InitSteps /\ [][NextSteps]_vars

(***************************************************************************)
(* Parameter parsing on its own: every well-formed parameter text.         *)
(***************************************************************************)
ParamAlphabet == {"void", "int", "x", "5", ",", WS, "="}

\* a token sequence that is the lexing of a text: no two words side by side
Lexed(s) == \A p \in 1..(Len(s) - 1) : ~(IsWord(s[p]) /\ IsWord(s[p + 1]))

ParamInputs ==
    {s \in UNION {[1..n -> ParamAlphabet] : n \in 0..MaxParamLen} : Lexed(s)}

ScanIdle ==
    lines = <<<<>>>> /\ i = 0 /\ functions = <<>> /\ pc = "idle" /\ BraceIdle

InitParams ==
    /\ params_str \in ParamInputs
    /\ parameters = <<>>
    /\ ppc = "parse"
    /\ ScanIdle /\ RepoIdle

\* lines 83-93
ParseStep ==
    /\ ppc = "parse"
    /\ parameters' = ParseParameters(params_str)
    /\ ppc' = "parsed"
    /\ UNCHANGED <<params_str, lines, i, functions, pc, bracevars,
                   disk, cpp_files, k, repo_functions, rpc>>

NextParams == ParseStep

SpecParams == InitParams /\ [][NextParams]_vars

(***************************************************************************)
(* find_cpp_files and analyze_repository (cpp_analyzer.py 30-36, 144-160). *)
(* The disk is the tree under repo_path in os.walk order; a file is its    *)
(* path, whether open/read succeeds, and its lines.                        *)
(***************************************************************************)
CppSuffixes == {".cpp", ".hpp", ".cxx", ".hxx", ".cc"}

\* file.endswith(('.cpp', '.hpp', '.cxx', '.hxx', '.cc'))
EndsWithCpp(path) == path.ext \in CppSuffixes

\* os.walk(self.repo_path): nothing at all when the root does not exist
Walk(d) == IF d.exists THEN d.files ELSE <<>>

RECURSIVE SelectCpp(_)
SelectCpp(files) ==
    IF files = <<>> THEN <<>>
    ELSE (IF EndsWithCpp(Head(files).path) THEN <<Head(files).path>> ELSE <<>>)
         \o SelectCpp(Tail(files))

\* find_cpp_files
FindCppFiles(d) == SelectCpp(Walk(d))

\* the file open(file_path) finds
FileAt(d, path) ==
    CHOOSE f \in {d.files[n] : n \in 1..Len(d.files)} : f.path = path

RepoPaths ==
    {[stem |-> "a", ext |-> ".cpp"], [stem |-> "b", ext |-> ".hpp"],
     [stem |-> "c", ext |-> ".txt"], [stem |-> "d", ext |-> ".cc"]}

RepoContents ==
    {<<SigF, CloseLine>>, <<SigG, CloseLine, SigS, Stmt, CloseLine>>,
     <<SigKw, Stmt>>}

RepoFiles == [path : RepoPaths, readable : BOOLEAN, content : RepoContents]

\* the paths of a directory tree are distinct
Distinct(files) ==
    \A m, n \in 1..Len(files) : m # n => files[m].path # files[n].path

Disks ==
    {[exists |-> FALSE, files |-> <<>>]} \cup
    {[exists |-> TRUE, files |-> fs] :
        fs \in {x \in UNION {[1..n -> RepoFiles] : n \in 0..MaxFiles} : Distinct(x)}}

InitRepo ==
    /\ disk \in Disks
    /\ cpp_files = <<>>
    /\ k = 0
    /\ repo_functions = <<>>
    /\ rpc = "start"
    /\ ScanIdle /\ ParamsIdle

scanvars == <<lines, i, functions, pc, bracevars, params_str, parameters, ppc>>

\* lines 145-146
Discover ==
    /\ rpc = "start"
    /\ cpp_files' = FindCppFiles(disk)
    /\ repo_functions' = <<>>
    /\ k' = 0
    /\ rpc' = "loop"
    /\ UNCHANGED <<disk, scanvars>>

\* lines 150-154: the file is read and scanned, its records are appended
AnalyzeFile ==
    /\ rpc = "loop" /\ k < Len(cpp_files)
    /\ FileAt(disk, cpp_files[k + 1]).readable
    /\ repo_functions' = repo_functions \o
          Extract(FileAt(disk, cpp_files[k + 1]).content, cpp_files[k + 1])
    /\ k' = k + 1
    /\ UNCHANGED <<disk, cpp_files, rpc, scanvars>>

\* a slip: the exception ends the loop instead of continuing it
SkipFileAbort ==
    /\ rpc = "loop" /\ k < Len(cpp_files)
    /\ ~FileAt(disk, cpp_files[k + 1]).readable
    /\ rpc' = "done"
    /\ UNCHANGED <<disk, cpp_files, k, repo_functions, scanvars>>

\* lines 155-157: open or read raised; except Exception: continue
SkipFile ==
    /\ rpc = "loop" /\ k < Len(cpp_files)
    /\ ~FileAt(disk, cpp_files[k + 1]).readable
    /\ k' = k + 1
    /\ UNCHANGED <<disk, cpp_files, repo_functions, rpc, scanvars>>

\* line 160: return functions
Finish ==
    /\ rpc = "loop" /\ k >= Len(cpp_files)
    /\ rpc' = "done"
    /\ UNCHANGED <<disk, cpp_files, k, repo_functions, scanvars>>

NextRepo == Discover \/ AnalyzeFile \/ SkipFile \/ Finish

SpecRepo == InitRepo /\ [][NextRepo]_vars

(***************************************************************************)
(* Notions the properties are stated in, recomputed from the input alone.  *)
(***************************************************************************)
\* +1 per '{', -1 per '}' over a text
RECURSIVE BraceNet(_)
BraceNet(s) ==
    IF s = <<>> THEN 0
    ELSE (IF Head(s) = "{" THEN 1 ELSE IF Head(s) = "}" THEN -1 ELSE 0)
         + BraceNet(Tail(s))

\* the characters of the 1-based lines a..b
RECURSIVE JoinLines(_, _, _)
JoinLines(ls, a, b) ==
    IF a > b \/ a > Len(ls) THEN <<>> ELSE ls[a] \o JoinLines(ls, a + 1, b)

\* the braces of a text, in order
IsBrace(c) == c \in {"{", "}"}

Braces(text) == SelectSeq(text, IsBrace)

\* the depth, starting from 1, reaches 0 somewhere in the brace sequence b
ZeroIn(b) == \E n \in 1..Len(b) : 1 + BraceNet(SubSeq(b, 1, n)) = 0

\* the depth, starting from 1, reaches 0 somewhere in the text
ReachesZero(text) == ZeroIn(Braces(text))

\* the body opened on the line of index ix closes before end-of-input
Closes(ix) == ReachesZero(JoinLines(lines, ix + 2, Len(lines)))

\* the 1-based number of the line on which it first closes
ClosingLine(ix) ==
    MinOf({n \in (ix + 2)..Len(lines) : ReachesZero(JoinLines(lines, ix + 2, n))})

\* pattern groups of the line of index ix
SigMatch(ix) ==
    IF ix >= 0 /\ ix < Len(lines) THEN Match(Strip(lines[ix + 1]))
    ELSE [ok |-> FALSE]

\* the last '::' segment of a qualified name
SimpleName(fqn) == Strip(Split(fqn, "::")[Len(Split(fqn, "::"))])

\* a reserved keyword, a destructor marker or an operator token
BadName(n) ==
    \/ n \in {<<w>> : w \in cpp_keywords}
    \/ (n # <<>> /\ n[1] = "~")
    \/ \E p \in 1..Len(n) : n[p] \in OperatorWords

\* the line of index ix has the shape of a signature
Shaped(ix) == SigMatch(ix).ok

\* the match m is one of a name that is filtered out
BadMatch(m) == m.ok /\ BadName(SimpleName(m.full_qualified_name))

\* the match m is one of a name that is kept
GoodMatch(m) == m.ok /\ ~BadName(SimpleName(m.full_qualified_name))

\* the line of index ix has the shape of a signature and a filtered name
ShapedBad(ix) == BadMatch(SigMatch(ix))

\* the line of index ix is accepted as a function signature
Accepted(ix) == GoodMatch(SigMatch(ix))

Records == {functions[n] : n \in 1..Len(functions)}

\* a record was emitted for the signature on the line of index ix
RecordAt(ix) == \E r \in Records : r.line_start = ix + 1

\* the line of index ix is the signature line of record r
MatchOf(m, r) ==
    GoodMatch(m) /\ Strip(m.full_qualified_name) = r.full_qualified_name

IsSigOf(ix, r) == MatchOf(SigMatch(ix), r)

\* the line of index ix lies behind the signature line of an emitted record,
\* up to its line_end
Swallowed(ix) ==
    \E r \in Records : r.line_start < ix + 1 /\ ix + 1 <= r.line_end

Indices == 0..(Len(lines) - 1)

(***************************************************************************)
(* Properties of extract_functions_from_text.                              *)
(***************************************************************************)
\* C1: an accepted signature whose body does not close before end-of-input
\* has no record in the returned list.
C1_UnterminatedDiscarded ==
    \A ix \in Indices : (Accepted(ix) /\ ~Closes(ix)) => ~RecordAt(ix)

\* C2: over the 1-based lines line_start..line_end of every record the braces,
\* recounted over all characters, are balanced.
C2_SpanBalanced ==
    \A r \in Records : BraceNet(JoinLines(lines, r.line_start, r.line_end)) = 0

\* C3 as stated: line_start is the number of the line after the signature
\* line, never the signature line's own number, and line_end is the number of
\* the line on which the depth first returns to 0.
C3_SpanExcludesSignature ==
    \A r \in Records :
        /\ ~IsSigOf(r.line_start - 1, r)
        /\ IsSigOf(r.line_start - 2, r)
        /\ Closes(r.line_start - 2)
        /\ r.line_end = ClosingLine(r.line_start - 2)

\* C3 as the code has it: line_start is the 1-based number of the signature
\* line itself; line_end is the 1-based number of the line on which the
\* depth, 1 at the end of the signature line, first returns to 0, and is
\* line_start when it never does.
C3_SpanFromSignature ==
    \A r \in Records :
        /\ IsSigOf(r.line_start - 1, r)
        /\ r.line_end = IF Closes(r.line_start - 1)
                        THEN ClosingLine(r.line_start - 1)
                        ELSE r.line_start

C3_Witness ==
    /\ pc = "done"
    /\ \E r \in Records : r.line_end > r.line_start
    /\ \E r \in Records : r.line_end = r.line_start

\* C7: behind an accepted signature at i whose body is unterminated the scan
\* resumes at i + 1, and every later accepted signature whose body closes,
\* unless it lies inside the span of an emitted record, has its record.
C7_ResumesAfterUnterminated ==
    /\ [][(pc = "scan" /\ i < Len(lines) /\ Accepted(i) /\ ~Closes(i))
            => i' = i + 1]_vars
    /\ [](pc = "done" =>
            \A ix \in Indices : \A kx \in Indices :
                (/\ ix < kx
                 /\ RecordAt(ix) /\ ~Closes(ix)
                 /\ Accepted(kx) /\ Closes(kx) /\ ~Swallowed(kx))
                => RecordAt(kx))

C7_Witness ==
    /\ pc = "done"
    /\ \E ix \in Indices : \E kx \in Indices :
          /\ ix < kx
          /\ Accepted(ix) /\ RecordAt(ix) /\ ~Closes(ix)
          /\ Accepted(kx) /\ Closes(kx) /\ RecordAt(kx)

\* C8: no record has a simple name that is a reserved keyword, starts with
\* '~' or contains 'operator'; on a signature-shaped line with such a name the
\* scan emits nothing and advances by exactly one line.
C8_NoFilteredNames ==
    /\ [](\A r \in Records :
            /\ ~BadName(r.name)
            /\ r.name = SimpleName(r.full_qualified_name))
    /\ [](\A ix \in Indices : ShapedBad(ix) => ~RecordAt(ix))
    /\ [][(pc = "scan" /\ i < Len(lines) /\ ShapedBad(i))
            => (i' = i + 1 /\ functions' = functions)]_vars

C8_Witness ==
    /\ pc = "done"
    /\ \E ix \in Indices : ShapedBad(ix) /\ ~Swallowed(ix)
    /\ functions # <<>>

\* every '::' of the line stands behind an opening parenthesis
NoQualified(line) ==
    \A p \in 1..Len(line) : line[p] = "::" => \E q \in 1..(p - 1) : line[q] = "("

\* C9: every record's full_qualified_name has a '::'; input without a
\* '::'-qualified identifier before a parameter list yields no record.
C9_AlwaysQualified ==
    /\ \A r \in Records :
          \E p \in 1..Len(r.full_qualified_name) : r.full_qualified_name[p] = "::"
    /\ (\A n \in 1..Len(lines) : NoQualified(lines[n])) => functions = <<>>

C9_Witness ==
    /\ pc = "done"
    /\ functions # <<>>
    /\ \E ix \in Indices : lines[ix + 1] = SigFree /\ ~Swallowed(ix)

\* the '::' segments of a qualified name, each trimmed
Trimmed(parts) == [n \in 1..Len(parts) |-> Strip(parts[n])]

Segments(r) == Trimmed(Split(r.full_qualified_name, "::"))

\* record r holds the resolution of the segments segs
ResolvedFrom(r, segs) ==
    /\ Len(segs) >= 2
    /\ r.name = segs[Len(segs)]
    /\ Len(segs) >= 3 =>
          (r.namespace = Some(segs[1]) /\ r.class_name = Some(segs[2]))
    /\ Len(segs) = 2 =>
          (r.namespace = None /\ r.class_name = Some(segs[1]))

\* C10: name is the last segment; with three or more segments namespace is
\* the first and class_name the second; with two, class_name is the first and
\* namespace is None.
C10_NameResolution == \A r \in Records : ResolvedFrom(r, Segments(r))

C10_Witness ==
    /\ pc = "done"
    /\ \E r \in Records : Len(Segments(r)) = 4 /\ r.class_name = <<<<"A">>>>
    /\ \E r \in Records : Len(Segments(r)) = 2 /\ r.namespace = None

\* the tokens of the lines from the 1-based line a on, a newline before each
RECURSIVE TokensFrom(_, _)
TokensFrom(ls, a) ==
    IF a > Len(ls) THEN <<>> ELSE <<"\n">> \o ls[a] \o TokensFrom(ls, a + 1)

\* the place of the opening brace of a signature line
OpenAt(line) == MinOf({p \in 1..Len(line) : line[p] = "{"})

\* the text behind the opening brace of the signature line of index ix
Behind(ix) ==
    Slice(lines[ix + 1], OpenAt(lines[ix + 1]) + 1, Len(lines[ix + 1]))
    \o TokensFrom(lines, ix + 2)

\* the places of text at which the depth, 1 before it, is 0
Zeros(text) == {n \in 1..Len(text) : 1 + BraceNet(SubSeq(text, 1, n)) = 0}

\* the text up to the brace that matches the opening brace
BodyOf(text, zeros) == Text(Slice(text, 1, MinOf(zeros) - 1))

\* the opening brace of the signature line of index ix has a matching brace
HasBody(ix) == Zeros(Behind(ix)) # {}

\* the body of the function whose signature is on the line of index ix: the
\* text between the opening brace and its matching closing brace
Body(ix) == BodyOf(Behind(ix), Zeros(Behind(ix)))

\* the tags of record r cover the vocabulary of the lower-cased body low
TagsCover(r, low) ==
    /\ \A n \in 1..Len(ALGORITHM_KEYWORDS) :
          InStr(ALGORITHM_KEYWORDS[n], low) =>
              \E q \in 1..Len(r.algorithm_keywords) :
                  r.algorithm_keywords[q] = ALGORITHM_KEYWORDS[n]
    /\ AnyIn(MATH_KEYWORDS, low) => r.includes_math

\* C12: the tag list of every record has every algorithmic keyword that
\* occurs, case-insensitively and as a substring, in the function's body, the
\* text between the signature's opening brace and its matching closing brace,
\* and includes_math is true when a mathematical keyword occurs there, also
\* when body text lies on the signature line.
C12_TagsCoverBody ==
    \A r \in Records :
        HasBody(r.line_start - 1) => TagsCover(r, Lower(Body(r.line_start - 1)))

\* C13: records are emitted in strictly increasing line_start order, each
\* line_start strictly greater than the line_end of the record before it;
\* behind a record whose body closed the scan resumes at the line after the
\* closing-brace line; a signature-shaped line inside the body span of an
\* emitted record has no record of its own.
C13_RecordsInOrder ==
    /\ [](\A n \in 1..(Len(functions) - 1) :
            /\ functions[n + 1].line_start > functions[n].line_start
            /\ functions[n + 1].line_start > functions[n].line_end)
    /\ [][(pc = "scan" /\ i < Len(lines) /\ Accepted(i) /\ Closes(i))
            => (Len(functions') = Len(functions) + 1 /\ i' = ClosingLine(i))]_vars
    /\ [](\A ix \in Indices : (Shaped(ix) /\ Swallowed(ix)) => ~RecordAt(ix))

C13_Witness ==
    /\ pc = "done"
    /\ Len(functions) = 2
    /\ functions[1].line_end > functions[1].line_start
    /\ \E ix \in Indices : Shaped(ix) /\ Swallowed(ix)

\* the length of the longest line
Width == MaxOf({Len(lines[n]) : n \in 1..Len(lines)})

\* what is left of the pass of the outer loop: the lines and characters the
\* brace scan has before it, and more than any of that at the loop head
PassLeft ==
    IF pc = "scan" THEN (Len(lines) + 1) * (Width + 2)
    ELSE IF pc = "while" THEN (Len(lines) - j) * (Width + 2) + Width + 1
    ELSE IF pc = "for" THEN (Len(lines) - j) * (Width + 2) + Width + 1 - col
    ELSE 0

\* what is left of the call: the passes to come, then what is left of this one
Variant ==
    (Len(lines) - i + (IF pc = "done" THEN 0 ELSE 1))
        * ((Len(lines) + 1) * (Width + 2) + 1)
    + PassLeft

\* some statement is to run next: at the loop head the three outcomes of a
\* line are all there are, the for loop is inside a line
CanStep ==
    \/ pc = "scan" /\ i >= Len(lines)
    \/ pc = "scan" /\ Iter(lines, i, FilePath).kind \in {"nomatch", "reject", "emit"}
    \/ pc = "while"
    \/ pc = "for" /\ j < Len(lines) /\ col >= 1 /\ col <= Len(lines[j + 1]) + 1

\* C14: the call returns on every input: no step is the last before the
\* return and every step lowers a natural number; every pass of the outer
\* loop strictly increases i, by 1 on a line that does not match or is
\* rejected, to line_end >= i + 1 behind a matched signature; j never exceeds
\* the number of lines; the brace depth never drops below 0.
C14_Terminates ==
    /\ [](pc = "done" \/ CanStep)
    /\ [](Variant >= 0)
    /\ [][Variant' < Variant]_vars
    /\ [][pc' = "scan" => i' > i]_vars
    /\ [][(pc = "scan" /\ i < Len(lines) /\ ~Accepted(i))
            => (pc' = "scan" /\ i' = i + 1)]_vars
    /\ [][(pc = "while" /\ pc' = "scan")
            => (Accepted(i) /\ i' = line_end /\ line_end >= i + 1)]_vars
    /\ [](j <= Len(lines))
    /\ [](brace_count >= 0)

C14_Witness ==
    /\ pc = "done"
    /\ Len(functions) = 2
    /\ functions[1].line_end > functions[1].line_start
    /\ functions[2].line_end = functions[2].line_start
    /\ j = Len(lines) /\ brace_count = 1

\* the scan taken step by step returns the list of the scan taken whole
StepsReturnExtract == pc = "done" => functions = Extract(lines, FilePath)

(***************************************************************************)
(* Properties of the parameter parser.                                     *)
(***************************************************************************)
\* C4 as stated: the list is empty exactly when the trimmed parameter text is
\* empty or the single token 'void'.
C4_EmptyIffVoidText ==
    ppc = "parsed" =>
        (parameters = <<>> <=> Strip(params_str) \in {<<>>, <<"void">>})

\* C4 as the code has it: the list is empty exactly when every
\* comma-separated segment of the text, trimmed, is empty or 'void'.
C4_EmptyIffVoidSegments ==
    ppc = "parsed" =>
        (parameters = <<>> <=>
            \A n \in 1..Len(Split(params_str, ",")) :
                Strip(Split(params_str, ",")[n]) \in {<<>>, <<"void">>})

C4_Witness ==
    /\ ppc = "parsed"
    /\ params_str = <<"void", ",", WS, "void">>
    /\ parameters = <<>>

\* a segment that declares a parameter: not empty and not 'void'
IsDeclared(seg) == seg # <<>> /\ seg # <<"void">>

\* the comma-separated segments of a parameter text that declare a parameter,
\* trimmed, in declaration order
DeclaredSegments(ps) == SelectSeq(Trimmed(Split(ps, ",")), IsDeclared)

\* positions of a trailing identifier of seg: an identifier behind a blank,
\* with nothing or an '=' clause after it
TrailingIdents(seg) ==
    {n \in 2..Len(seg) :
        /\ seg[n - 1] = WS /\ IsIdent(seg[n])
        /\ (n = Len(seg) \/ At(seg, SkipWs(seg, n + 1)) = "=")}

\* pair is what the segment seg is to yield: a trailing identifier as name
\* with the text before it as type, else 'param' with the whole segment
PairFor(pair, seg) ==
    IF TrailingIdents(seg) # {}
    THEN \E n \in TrailingIdents(seg) :
            pair = [name |-> <<seg[n]>>, type |-> Strip(Slice(seg, 1, n - 1))]
    ELSE pair = [name |-> <<"param">>, type |-> seg]

\* C11: parameters holds one {name, type} pair per non-empty, non-'void'
\* comma-separated segment, in declaration order; a segment with a trailing
\* identifier behind a blank (an '=' clause after it ignored) gives that
\* identifier as name and the text before it as type, any other segment
\* gives the name 'param' and the whole segment as type.
C11_OnePairPerSegment ==
    ppc = "parsed" =>
        /\ Len(parameters) = Len(DeclaredSegments(params_str))
        /\ \A n \in 1..Len(parameters) :
              PairFor(parameters[n], DeclaredSegments(params_str)[n])

(***************************************************************************)
(* Properties of analyze_repository.                                       *)
(***************************************************************************)
\* the records of the readable source files among fs, in order
RECURSIVE ExpectedOf(_)
ExpectedOf(fs) ==
    IF fs = <<>> THEN <<>>
    ELSE (IF EndsWithCpp(Head(fs).path) /\ Head(fs).readable
          THEN Extract(Head(fs).content, Head(fs).path) ELSE <<>>)
         \o ExpectedOf(Tail(fs))

\* the files among fs that discovery selects
RECURSIVE Discovered(_)
Discovered(fs) ==
    IF fs = <<>> THEN <<>>
    ELSE (IF EndsWithCpp(Head(fs).path) THEN <<Head(fs)>> ELSE <<>>)
         \o Discovered(Tail(fs))

\* C5: the result is the concatenation, in discovery order, of the record
\* lists of the files read without raising; a file that raises contributes
\* nothing and the run goes on to the last file.
C5_ConcatenationOfReadable ==
    /\ rpc \in {"loop", "done"} =>
          repo_functions = ExpectedOf(SubSeq(Discovered(disk.files), 1, k))
    /\ rpc = "done" =>
          (k = Len(Discovered(disk.files)) /\ repo_functions = ExpectedOf(disk.files))

C5_Witness ==
    /\ rpc = "done"
    /\ Len(cpp_files) = 3
    /\ FileAt(disk, cpp_files[1]).readable
    /\ ~FileAt(disk, cpp_files[2]).readable
    /\ FileAt(disk, cpp_files[3]).readable
    /\ Len(repo_functions) = 3

\* C6: with a root directory that does not exist, discovery fails: the run
\* never gets past find_cpp_files and never returns a list.
C6_MissingRootFails == ~disk.exists => rpc = "start"

====
